---- MODULE Spec2Model ----
(***************************************************************************)
(* Model of the bloat analysis of git-time-machine (cli/commands/bloat.js). *)
(* Text is modelled as a sequence of one-character strings, so that the     *)
(* parsing the code does (trim, split, join, parseInt) is computed and not  *)
(* assumed.                                                                 *)
(***************************************************************************)
EXTENDS Integers, Sequences, FiniteSets, TLC

\* ---------------------------------------------------------------- bounds
\* Longest rev-list output, in lines.
MaxLines == 3

\* ------------------------------------------------------- text primitives
Whitespace == {" ", "\t", "\n"}
DecDigits == <<"0", "1", "2", "3", "4", "5", "6", "7", "8", "9">>
DigitChars == {DecDigits[k] : k \in 1..10}
DigitVal(ch) == (CHOOSE k \in 1..10 : DecDigits[k] = ch) - 1

Min(a, b) == IF a < b THEN a ELSE b

RECURSIVE DropLeadingWS(_)
DropLeadingWS(s) ==
  IF s # <<>> /\ Head(s) \in Whitespace THEN DropLeadingWS(Tail(s)) ELSE s

RECURSIVE DropTrailingWS(_)
DropTrailingWS(s) ==
  IF s # <<>> /\ s[Len(s)] \in Whitespace
  THEN DropTrailingWS(SubSeq(s, 1, Len(s) - 1))
  ELSE s

\* String.prototype.trim
Trim(s) == DropTrailingWS(DropLeadingWS(s))

RECURSIVE SplitCharAcc(_, _, _, _)
SplitCharAcc(s, ch, parts, cur) ==
  IF s = <<>> THEN Append(parts, cur)
  ELSE IF Head(s) = ch THEN SplitCharAcc(Tail(s), ch, Append(parts, cur), <<>>)
  ELSE SplitCharAcc(Tail(s), ch, parts, Append(cur, Head(s)))

\* s.split(ch) for a one-character separator
SplitChar(s, ch) == SplitCharAcc(s, ch, <<>>, <<>>)

RECURSIVE SplitWSAcc(_, _, _)
SplitWSAcc(s, parts, cur) ==
  IF s = <<>> THEN Append(parts, cur)
  ELSE IF Head(s) \in Whitespace
       THEN SplitWSAcc(DropLeadingWS(Tail(s)), Append(parts, cur), <<>>)
       ELSE SplitWSAcc(Tail(s), parts, Append(cur, Head(s)))

\* s.split(/\s+/)
SplitWS(s) == SplitWSAcc(s, <<>>, <<>>)

RECURSIVE Join(_, _)
\* parts.join(sep)
Join(parts, sep) ==
  IF parts = <<>> THEN <<>>
  ELSE IF Len(parts) = 1 THEN parts[1]
  ELSE parts[1] \o sep \o Join(Tail(parts), sep)

RECURSIVE DigitsValue(_, _)
DigitsValue(s, acc) ==
  IF s # <<>> /\ Head(s) \in DigitChars
  THEN DigitsValue(Tail(s), 10 * acc + DigitVal(Head(s)))
  ELSE acc

\* parseInt(s, 10): leading whitespace skipped, an optional sign, then the
\* longest run of decimal digits; NaN when there is no digit.
ParseInt(s) ==
  LET t == DropLeadingWS(s)
      signed == t # <<>> /\ Head(t) \in {"-", "+"}
      d == IF signed THEN Tail(t) ELSE t
  IN IF d = <<>> \/ Head(d) \notin DigitChars
     THEN [isNaN |-> TRUE, num |-> 0]
     ELSE [isNaN |-> FALSE,
           num |-> IF signed /\ Head(t) = "-" THEN 0 - DigitsValue(d, 0)
                   ELSE DigitsValue(d, 0)]

RECURSIVE ToDecimal(_)
\* The decimal rendering of a natural number, as git prints %(objectsize).
ToDecimal(n) ==
  IF n < 10 THEN <<DecDigits[n + 1]>>
  ELSE Append(ToDecimal(n \div 10), DecDigits[(n % 10) + 1])

\* ------------------------------------------------------------ the inputs
\* Object identifiers (shortened hashes): one beginning with a decimal digit.
Id1a == <<"1", "a">>
Idb2 == <<"b", "2">>
Idc3 == <<"c", "3">>
Ids == {Id1a, Idb2, Idc3}

\* Lines `git rev-list --objects` may print: "<hash> <path>", the hash alone
\* (a commit), or the hash and a space (the root tree).  One identifier is
\* listed alone and under three paths, one of them holding a run of two
\* spaces.
RevListLines ==
  { Id1a,
    Id1a \o <<" ", "p">>,
    Id1a \o <<" ", "q">>,
    Id1a \o <<" ", "r", " ", " ", "s">>,
    Idb2,
    Idc3 \o <<" ">> }

HashOfLine(line) == SubSeq(line, 1, 2)

\* Sizes the object store may hold.
Sizes == {0, 1}

\* Outputs of `git rev-list --objects`: at most MaxLines lines, each ended
\* by a newline (the empty output included).
RECURSIVE LineSeqs(_)
LineSeqs(n) ==
  IF n = 0 THEN {<<>>}
  ELSE LET shorter == LineSeqs(n - 1)
       IN shorter \cup {Append(ls, l) : ls \in {x \in shorter : Len(x) = n - 1},
                                         l \in RevListLines}

RECURSIVE Unlines(_)
Unlines(ls) == IF ls = <<>> THEN <<>> ELSE Head(ls) \o <<"\n">> \o Unlines(Tail(ls))

HashesListed(ls) == {HashOfLine(ls[k]) : k \in DOMAIN ls}
NoRepeat(ls) == \A j, k \in DOMAIN ls : j # k => HashOfLine(ls[j]) # HashOfLine(ls[k])

\* What the object store answers: a size for the identifiers it holds, none
\* for the others.
Stores(ids) == UNION {[S -> Sizes] : S \in SUBSET ids}

\* ------------------------------------------------------------------ Map
\* A JavaScript Map: its entries in insertion order.  set() of a key the
\* map holds replaces the value and keeps the key's position.
MapHas(m, k) == \E j \in DOMAIN m : m[j].key = k
MapGet(m, k) == m[CHOOSE j \in DOMAIN m : m[j].key = k].value
\* Mutants: a list in place of the Map (no replacement); a set() that keeps
\* the value the key already has.
MapSet_Append(m, k, v) == Append(m, [key |-> k, value |-> v])
MapSet_KeepFirst(m, k, v) ==
  IF MapHas(m, k) THEN m ELSE Append(m, [key |-> k, value |-> v])
MapSet(m, k, v) ==
  IF MapHas(m, k)
  THEN [j \in DOMAIN m |-> IF m[j].key = k THEN [key |-> k, value |-> v] ELSE m[j]]
  ELSE Append(m, [key |-> k, value |-> v])
MapKeys(m) == [j \in DOMAIN m |-> m[j].key]

\* Array.prototype.slice(from, to) for 0 <= from: `to` is exclusive, a
\* negative `to` counts from the end, and both are clamped to the length.
Slice(a, from, to) ==
  LET n == Len(a)
      e == IF to < 0 THEN (IF n + to < 0 THEN 0 ELSE n + to) ELSE Min(to, n)
  IN IF from >= e THEN <<>> ELSE SubSeq(a, from + 1, e)

\* -------------------------------------------------------- getAllObjects
Unknown == <<"(", "u", "n", "k", "n", "o", "w", "n", ")">>
MissingWord == <<"m", "i", "s", "s", "i", "n", "g">>

revListAll == "git rev-list --objects --all"
revListHead == "git rev-list --objects HEAD"
RevListCmd(includeDeleted) == IF includeDeleted THEN revListAll ELSE revListHead

\* output.trim().split('\n')
OutputLines(output) == SplitChar(Trim(output), "\n")

\* One iteration of the loop over the lines (bloat.js 49-56).
SetLine(m, line) ==
  LET parts == SplitWS(line)
  IN IF Len(parts) >= 2 THEN MapSet(m, parts[1], Join(Tail(parts), <<" ">>))
     ELSE IF Len(parts) = 1 THEN MapSet(m, parts[1], <<>>)
     ELSE m

RECURSIVE BuildHashToPath(_, _)
BuildHashToPath(lines, m) ==
  IF lines = <<>> THEN m ELSE BuildHashToPath(Tail(lines), SetLine(m, Head(lines)))

\* What `git cat-file --batch-check="%(objectsize) %(objectname)"` prints
\* for the identifiers given on its input, one line each, in input order:
\* "<size> <hash>" for an object it holds, "<hash> missing" otherwise.  An
\* empty input prints nothing.
CatFileLine(store, h) ==
  IF h \in DOMAIN store THEN ToDecimal(store[h]) \o <<" ">> \o h
  ELSE h \o <<" ">> \o MissingWord

RECURSIVE CatFileOutput(_, _)
CatFileOutput(store, batch) ==
  IF batch = <<>> \/ Join(batch, <<"\n">>) = <<>> THEN <<>>
  ELSE CatFileLine(store, Head(batch)) \o <<"\n">>
       \o (IF Len(batch) = 1 THEN <<>> ELSE CatFileOutput(store, Tail(batch)))

\* hashToPath.get(hash) || '(unknown)'
PathOf(m, hash) ==
  IF MapHas(m, hash) /\ MapGet(m, hash) # <<>> THEN MapGet(m, hash) ELSE Unknown

\* One iteration of the loop over the lines of a size lookup (bloat.js
\* 74-84): the entries it pushes, none or one.
EntryOfLine(m, line) ==
  LET f == SplitChar(line, " ")
      sizeNum == ParseInt(f[1])
  IN IF ~sizeNum.isNaN /\ Len(f) >= 2 /\ f[2] # <<>>
     THEN <<[hash |-> f[2], path |-> PathOf(m, f[2]), size |-> sizeNum.num]>>
     ELSE <<>>

RECURSIVE EntriesOfLines(_, _)
EntriesOfLines(m, lines) ==
  IF lines = <<>> THEN <<>>
  ELSE EntryOfLine(m, Head(lines)) \o EntriesOfLines(m, Tail(lines))

\* The entries one successful size lookup adds to `objects`.
BatchEntries(m, sizeOutput) ==
  EntriesOfLines(m, SplitChar(Trim(sizeOutput), "\n"))

\* Mutant: a chunk one identifier too long, overlapping the next.
BatchAt_Overlap(hs, i, size) == Slice(hs, i, i + size + 1)
\* hashes.slice(i, i + batchSize)
BatchAt(hs, i, size) == Slice(hs, i, i + size)

RECURSIVE InsertDesc_Unstable(_, _)
\* Mutant: x placed before the entries of its own size.
InsertDesc_Unstable(sorted, x) ==
  IF sorted = <<>> THEN <<x>>
  ELSE IF Head(sorted).size > x.size
       THEN <<Head(sorted)>> \o InsertDesc_Unstable(Tail(sorted), x)
  ELSE <<x>> \o sorted

RECURSIVE InsertDesc(_, _)
\* x placed behind every entry that is not smaller: equal sizes keep their
\* order, as Array.prototype.sort (stable) does.
InsertDesc(sorted, x) ==
  IF sorted = <<>> THEN <<x>>
  ELSE IF Head(sorted).size >= x.size THEN <<Head(sorted)>> \o InsertDesc(Tail(sorted), x)
  ELSE <<x>> \o sorted

RECURSIVE SortAcc(_, _)
SortAcc(rest, sorted) ==
  IF rest = <<>> THEN sorted ELSE SortAcc(Tail(rest), InsertDesc(sorted, Head(rest)))

\* Mutant: the inventory returned as collected.
SortBySizeDesc_Unsorted(objs) == objs
\* objects.sort((a, b) => b.size - a.size)
SortBySizeDesc(objs) == SortAcc(objs, <<>>)

RECURSIVE ResolveFrom(_, _, _, _, _, _)
\* The loop of bloat.js 62-88 from offset k on: the entries pushed, the
\* chunks whose offset is in `fails` throwing.
ResolveFrom(m, hs, st, size, k, fails) ==
  IF k >= Len(hs) THEN <<>>
  ELSE (IF k \in fails THEN <<>>
        ELSE BatchEntries(m, CatFileOutput(st, BatchAt(hs, k, size))))
       \o ResolveFrom(m, hs, st, size, k + size, fails)

\* getAllObjects as a whole, given what rev-list printed, what the store
\* holds, the chunk size and the chunks whose lookup throws.
getAllObjects(output, st, size, fails) ==
  LET m == BuildHashToPath(OutputLines(output), <<>>)
  IN SortBySizeDesc(ResolveFrom(m, MapKeys(m), st, size, 0, fails))

\* ------------------------------------------------------- categorizeFile
UpperChars == <<"A", "B", "C", "D", "E", "F", "G", "H", "I", "J", "K", "L", "M",
                "N", "O", "P", "Q", "R", "S", "T", "U", "V", "W", "X", "Y", "Z">>
LowerChars == <<"a", "b", "c", "d", "e", "f", "g", "h", "i", "j", "k", "l", "m",
                "n", "o", "p", "q", "r", "s", "t", "u", "v", "w", "x", "y", "z">>
LowerChar(ch) ==
  IF \E k \in DOMAIN UpperChars : UpperChars[k] = ch
  THEN LowerChars[CHOOSE k \in DOMAIN UpperChars : UpperChars[k] = ch]
  ELSE ch
\* String.prototype.toLowerCase
ToLowerCase(s) == [k \in DOMAIN s |-> LowerChar(s[k])]

\* String.prototype.includes
Includes(s, sub) ==
  \E k \in 0..(Len(s) - Len(sub)) : SubSeq(s, k + 1, k + Len(sub)) = sub

Cat_binary == <<"b", "i", "n", "a", "r", "y">>
Cat_archive == <<"a", "r", "c", "h", "i", "v", "e">>
Cat_image == <<"i", "m", "a", "g", "e">>
Cat_video == <<"v", "i", "d", "e", "o">>
Cat_audio == <<"a", "u", "d", "i", "o">>
Cat_data == <<"d", "a", "t", "a">>
Cat_document == <<"d", "o", "c", "u", "m", "e", "n", "t">>
Cat_package == <<"p", "a", "c", "k", "a", "g", "e">>
Cat_nodemodules == <<"n", "o", "d", "e", "m", "o", "d", "u", "l", "e", "s">>
Cat_log == <<"l", "o", "g">>
Cat_other == <<"o", "t", "h", "e", "r">>

\* The `categories` object, in the order Object.entries walks it.
categories ==
  <<
    [name |-> Cat_binary,
     exts |-> {<<"e", "x", "e">>, <<"d", "l", "l">>, <<"s", "o">>, <<"d", "y", "l", "i", "b">>, <<"b", "i", "n">>, <<"o", "b", "j">>, <<"o">>, <<"a">>}],
    [name |-> Cat_archive,
     exts |-> {<<"z", "i", "p">>, <<"t", "a", "r">>, <<"g", "z">>, <<"b", "z", "2">>, <<"x", "z">>, <<"7", "z">>, <<"r", "a", "r">>, <<"t", "g", "z">>}],
    [name |-> Cat_image,
     exts |-> {<<"j", "p", "g">>, <<"j", "p", "e", "g">>, <<"p", "n", "g">>, <<"g", "i", "f">>, <<"b", "m", "p">>, <<"t", "i", "f", "f">>, <<"p", "s", "d">>, <<"s", "v", "g">>, <<"w", "e", "b", "p">>, <<"i", "c", "o">>}],
    [name |-> Cat_video,
     exts |-> {<<"m", "p", "4">>, <<"a", "v", "i">>, <<"m", "o", "v">>, <<"w", "m", "v">>, <<"f", "l", "v">>, <<"w", "e", "b", "m">>, <<"m", "k", "v">>}],
    [name |-> Cat_audio,
     exts |-> {<<"m", "p", "3">>, <<"w", "a", "v">>, <<"o", "g", "g">>, <<"f", "l", "a", "c">>, <<"a", "a", "c">>, <<"m", "4", "a">>}],
    [name |-> Cat_data,
     exts |-> {<<"d", "b">>, <<"s", "q", "l", "i", "t", "e">>, <<"s", "q", "l">>, <<"c", "s", "v">>, <<"j", "s", "o", "n">>, <<"x", "m", "l">>, <<"p", "a", "r", "q", "u", "e", "t">>}],
    [name |-> Cat_document,
     exts |-> {<<"p", "d", "f">>, <<"d", "o", "c">>, <<"d", "o", "c", "x">>, <<"x", "l", "s">>, <<"x", "l", "s", "x">>, <<"p", "p", "t">>, <<"p", "p", "t", "x">>}],
    [name |-> Cat_package,
     exts |-> {<<"j", "a", "r">>, <<"w", "a", "r">>, <<"e", "a", "r">>, <<"w", "h", "l">>, <<"g", "e", "m">>, <<"n", "u", "p", "k", "g">>}],
    [name |-> Cat_nodemodules,
     exts |-> {<<"n", "o", "d", "e", "_", "m", "o", "d", "u", "l", "e", "s">>}],
    [name |-> Cat_log,
     exts |-> {<<"l", "o", "g">>}]
  >>

\* path.split('.').pop()?.toLowerCase() || ''
ExtOf(path) ==
  LET parts == SplitChar(path, ".") IN ToLowerCase(parts[Len(parts)])

RECURSIVE FirstCategory(_, _, _)
\* The loop of bloat.js 167-171 from the k-th category on; `other` past the
\* last.
FirstCategory(path, ext, k) ==
  IF k > Len(categories) THEN Cat_other
  ELSE IF ext \in categories[k].exts \/ Includes(path, categories[k].name)
       THEN categories[k].name
       ELSE FirstCategory(path, ext, k + 1)

categorizeFile(path) == FirstCategory(path, ExtOf(path), 1)

\* ---------------------------------------------- generateRecommendations
\* 10 * 1024 * 1024, 5 * 1024 * 1024, 1024 * 1024
LargeObjectBytes == 10485760
LargeMediaBytes == 5242880
PackageBytes == 1048576
RatioFactor == 3
ManyLargeObjects == 10

node_modules == <<"n", "o", "d", "e", "_", "m", "o", "d", "u", "l", "e", "s">>
vendorSlash == <<"v", "e", "n", "d", "o", "r", "/">>

\* The advisory strings; the last carries the count it interpolates.
RecNodeModules == [text |-> "node_modules in history - use git-filter-repo to remove", n |-> 0]
RecVendor == [text |-> "vendor/ directory in history - consider removing", n |-> 0]
RecLargeMedia == [text |-> "Large media files detected - consider Git LFS", n |-> 0]
RecPackages == [text |-> "Package files in history - use artifact storage instead", n |-> 0]
RecRatio == [text |-> ".git directory is 3x larger than working directory", n |-> 0]
RecRunGc == [text |-> "   Run: git gc --aggressive --prune=now", n |-> 0]
RecManyLarge(n) == [text |-> "objects over 10MB - consider git-filter-repo cleanup", n |-> n]
RecHealthy == [text |-> "Repository looks healthy!", n |-> 0]

hasNodeModules(objs) == \E k \in DOMAIN objs : Includes(objs[k].path, node_modules)
hasVendor(objs) == \E k \in DOMAIN objs : Includes(objs[k].path, vendorSlash)
hasLargeMedia(objs) ==
  \E k \in DOMAIN objs :
    /\ objs[k].size > LargeMediaBytes
    /\ categorizeFile(objs[k].path) \in {Cat_image, Cat_video, Cat_audio}
hasPackages(objs) ==
  \E k \in DOMAIN objs :
    /\ objs[k].size > PackageBytes
    /\ categorizeFile(objs[k].path) \in {Cat_package, Cat_archive}
\* objects.filter(o => o.size > 10 * 1024 * 1024).length
largeObjectsLength(objs) ==
  Cardinality({k \in DOMAIN objs : objs[k].size > LargeObjectBytes})

\* Mutant: the comparison turned round.
RatioRuleFires_Inverted(gitSize, workSize) == workSize > gitSize * RatioFactor
\* gitDirSize > workingDirSize * 3
RatioRuleFires(gitSize, workSize) == gitSize > workSize * RatioFactor

\* Mutant: the rules chained with else, so that the first that fires is
\* the only one.
FiredAdvisories_ShortCircuit(objs, gitSize, workSize) ==
  IF hasNodeModules(objs) THEN <<RecNodeModules>>
  ELSE IF hasVendor(objs) THEN <<RecVendor>>
  ELSE IF hasLargeMedia(objs) THEN <<RecLargeMedia>>
  ELSE IF hasPackages(objs) THEN <<RecPackages>>
  ELSE IF RatioRuleFires(gitSize, workSize) THEN <<RecRatio, RecRunGc>>
  ELSE IF largeObjectsLength(objs) > ManyLargeObjects
       THEN <<RecManyLarge(largeObjectsLength(objs))>>
  ELSE <<>>
\* bloat.js 195-215: the six ifs, each pushing onto `recommendations`.
FiredAdvisories(objs, gitSize, workSize) ==
  (IF hasNodeModules(objs) THEN <<RecNodeModules>> ELSE <<>>)
  \o (IF hasVendor(objs) THEN <<RecVendor>> ELSE <<>>)
  \o (IF hasLargeMedia(objs) THEN <<RecLargeMedia>> ELSE <<>>)
  \o (IF hasPackages(objs) THEN <<RecPackages>> ELSE <<>>)
  \o (IF RatioRuleFires(gitSize, workSize) THEN <<RecRatio, RecRunGc>> ELSE <<>>)
  \o (IF largeObjectsLength(objs) > ManyLargeObjects
      THEN <<RecManyLarge(largeObjectsLength(objs))>> ELSE <<>>)

\* Mutant: no affirmation when no rule fired.
generateRecommendations_NoHealthy(objs, gitSize, workSize) ==
  FiredAdvisories(objs, gitSize, workSize)
\* bloat.js 217-221
generateRecommendations(objs, gitSize, workSize) ==
  LET fired == FiredAdvisories(objs, gitSize, workSize)
  IN IF Len(fired) = 0 THEN <<RecHealthy>> ELSE fired

\* Mutant: the recommendations made of the filtered entries.
recommendationsOf_Filtered(objs, filtered, gitSize, workSize) ==
  generateRecommendations(filtered, gitSize, workSize)
\* bloat.js 256: generateRecommendations is given `objects`, the full
\* inventory, with `filteredObjects` in scope.
recommendationsOf(objs, filtered, gitSize, workSize) ==
  generateRecommendations(objs, gitSize, workSize)

\* ------------------------------------------------ directory measurement
\* parseInt(output.split('\t')[0], 10) * 1024 of what `du -sk .git` prints
KiB == 1024
GitDirSizeOf(duOutput) == ParseInt(SplitChar(duOutput, "\t")[1]).num * KiB

\* parseInt(output.trim() || '0', 10) of what the find | stat | awk pipeline prints
WorkingDirSizeOf(findOutput) ==
  ParseInt(IF Trim(findOutput) = <<>> THEN <<"0">> ELSE Trim(findOutput)).num

\* ------------------------------------------------ bloatCommand, the report
DefaultLimit == <<"2", "0">>
DefaultMinSize == <<"1", "0", "4", "8", "5", "7", "6">>

\* parseInt(options.limit || '20', 10), parseInt(options.minSize || '1048576', 10):
\* an option not given is the empty text.
LimitOf(opts) == ParseInt(IF opts.limit = <<>> THEN DefaultLimit ELSE opts.limit)
MinSizeOf(opts) == ParseInt(IF opts.minSize = <<>> THEN DefaultMinSize ELSE opts.minSize)

\* Mutant: a strict comparison.
AtLeast_Strict(size, minSize) == ~minSize.isNaN /\ size > minSize.num
\* o.size >= minSize: false for every size when minSize is NaN
AtLeast(size, minSize) == ~minSize.isNaN /\ size >= minSize.num

\* objects.filter(o => o.size >= minSize)
FilterByMinSize(objs, minSize) == SelectSeq(objs, LAMBDA o : AtLeast(o.size, minSize))

\* filteredObjects.slice(0, limit): a NaN limit is 0
TakeLimit(objs, limit) == Slice(objs, 0, IF limit.isNaN THEN 0 ELSE limit.num)

RECURSIVE SumSizes(_)
\* objects.reduce((sum, o) => sum + o.size, 0)
SumSizes(objs) == IF objs = <<>> THEN 0 ELSE Head(objs).size + SumSizes(Tail(objs))

\* Mutant: the total taken over the filtered entries.
totalObjectSizeOf_Filtered(objs, filtered) == SumSizes(filtered)
\* bloat.js 253: the total is taken over `objects`, the full inventory, with
\* `filteredObjects` in scope.
totalObjectSizeOf(objs, filtered) == SumSizes(objs)

\* (gitDirSize / workingDirSize).toFixed(d), scale = 10^d: the quotient
\* rounded to d decimals, or Infinity or NaN when the divisor is 0.
RatioText(gitSize, workSize, scale) ==
  IF workSize = 0
  THEN [kind |-> IF gitSize = 0 THEN "NaN" ELSE "Infinity", scaled |-> 0]
  ELSE [kind |-> "finite",
        scaled |-> (2 * scale * gitSize + workSize) \div (2 * workSize)]

\* The category of an entry added to it (the JSON largestFiles).
WithCategory(objs) ==
  [k \in DOMAIN objs |-> [hash |-> objs[k].hash, path |-> objs[k].path,
                          size |-> objs[k].size,
                          category |-> categorizeFile(objs[k].path)]]

PathColumns == 50
PathTail == 47
Ellipsis == <<".", ".", ".">>
\* o.path.length > 50 ? '...' + o.path.slice(-47) : o.path
ShortPath(path) ==
  IF Len(path) > PathColumns
  THEN Ellipsis \o SubSeq(path, Len(path) - PathTail + 1, Len(path))
  ELSE path

\* The rows of the "Largest Files" table (formatBytes is not modelled: a row
\* keeps the size as a number).
TableRows(objs) ==
  [k \in DOMAIN objs |-> [path |-> ShortPath(objs[k].path), size |-> objs[k].size,
                          category |-> categorizeFile(objs[k].path)]]

\* Mutant: the category's total replaced, not added to.
AddToCategory_Overwrite(m, obj) == MapSet(m, categorizeFile(obj.path), obj.size)
\* categories.set(cat, (categories.get(cat) || 0) + obj.size)
AddToCategory(m, obj) ==
  LET cat == categorizeFile(obj.path)
  IN MapSet(m, cat, (IF MapHas(m, cat) THEN MapGet(m, cat) ELSE 0) + obj.size)

RECURSIVE CategoryTotals(_, _)
\* The loop of bloat.js 313-317.
CategoryTotals(objs, m) ==
  IF objs = <<>> THEN m ELSE CategoryTotals(Tail(objs), AddToCategory(m, Head(objs)))

RECURSIVE InsertByValueDesc(_, _)
InsertByValueDesc(sorted, e) ==
  IF sorted = <<>> THEN <<e>>
  ELSE IF Head(sorted).value >= e.value
       THEN <<Head(sorted)>> \o InsertByValueDesc(Tail(sorted), e)
       ELSE <<e>> \o sorted

RECURSIVE SortByValueAcc(_, _)
SortByValueAcc(rest, sorted) ==
  IF rest = <<>> THEN sorted
  ELSE SortByValueAcc(Tail(rest), InsertByValueDesc(sorted, Head(rest)))

\* [...categories.entries()].sort((a, b) => b[1] - a[1]).filter(([_, size]) => size > 1024 * 1024)
ShownCategoryBytes == 1048576
SortedCategories(m) ==
  SelectSeq(SortByValueAcc(m, <<>>), LAMBDA e : e.value > ShownCategoryBytes)

\* ------------------------------------------------------------ the state
VARIABLES
  pc,               \* where bloatCommand stands
  isRepo,           \* environment: whether <path>/.git exists
  revList,          \* environment: what `git rev-list --objects` answers
  store,            \* environment: the sizes the object store holds
  duAnswer,         \* environment: what `du -sk .git` answers
  findAnswer,       \* environment: what the find | stat | awk pipeline answers
  options,          \* the command's options, as text
  batchSize,        \* the chunk size of the size lookups
  cmd,              \* the enumeration command issued
  hashToPath,       \* getAllObjects: the Map of identifiers to paths
  hashes,           \* getAllObjects: its keys
  i,                \* getAllObjects: the offset of the next chunk
  objects,          \* getAllObjects: the entries, then the returned inventory
  failed,           \* the offsets of the chunks whose lookup threw
  filteredObjects,  \* bloatCommand: the entries at or above minSize
  gitDirSize,       \* bloatCommand
  workingDirSize,   \* bloatCommand
  unmeasured,       \* the directory measurements that threw
  totalObjectSize,  \* bloatCommand
  recommendations,  \* bloatCommand
  out,              \* what the command printed
  exitCode,         \* the process's exit code
  filePath,         \* categorizeFile called on its own: its argument
  category,         \* categorizeFile called on its own: what it returned
  log,              \* bloatCommand: what it has called and printed, in order
  ciOptions,        \* ciCommand: the --fail-on-* options
  scans,            \* environment: what ciCommand's scanners find
  results           \* ciCommand: the results object it builds and prints

vars == <<pc, isRepo, revList, store, duAnswer, findAnswer, options, batchSize, cmd, hashToPath, hashes,
          i, objects, failed, filteredObjects, gitDirSize, workingDirSize, unmeasured, totalObjectSize, recommendations, out, exitCode,
          filePath, category, log, ciOptions, scans, results>>

envVars == <<isRepo, revList, store, duAnswer, findAnswer, options, batchSize>>
enumVars == <<cmd, hashToPath, hashes>>
reportVars == <<gitDirSize, workingDirSize, unmeasured, totalObjectSize,
                recommendations, out>>
unitVars == <<filePath, category>>
ciVars == <<ciOptions, scans, results>>

\* const batchSize = 500
batchSizeDefault == 500
\* The chunk sizes tried: two that split the model's identifier lists, and
\* the program's own.
BatchSizes == {1, 2, batchSizeDefault}

NoRatio == [kind |-> "none", scaled |-> 0]
NoStats == [gitDirSize |-> 0, workingDirSize |-> 0, totalObjectSize |-> 0,
            objectCount |-> 0, largeObjectCount |-> 0, ratio |-> NoRatio]
NoOutput == [mode |-> "none", error |-> "", stats |-> NoStats, largestFiles |-> <<>>,
             rows |-> <<>>, more |-> 0, categories |-> <<>>,
             sortedCategories |-> <<>>, recommendations |-> <<>>]

\* Answers of `du -sk .git` and of the find | stat | awk pipeline; either
\* command may also fail.
DuOutputs == {<<"5", "8", "6", "0", "\t", ".", "g", "i", "t", "\n">>}
FindOutputs == {<<"\n">>, <<"1", "0", "0", "0", "0", "0", "0", "\n">>, <<"3", "0", "0", "0", "0", "0", "0", "\n">>}
Failure == [ok |-> FALSE, output |-> <<>>]
Answer(text) == [ok |-> TRUE, output |-> text]
\* rev-list's answer: the lines it prints, and the text they make.
Listed(ls) == [ok |-> TRUE, lines |-> ls, output |-> Unlines(ls)]
NotListed == [ok |-> FALSE, lines |-> <<>>, output |-> <<>>]
Answers(outputs) == {Failure} \cup {Answer(t) : t \in outputs}

\* The runs of the whole pipeline: the options given and what the two
\* directory measurements answer.
PipelineRuns ==
  { [options |-> [includeDeleted |-> TRUE, limit |-> <<>>, minSize |-> <<"1">>,
                  output |-> "json"],
     du |-> Answer(<<"5", "8", "6", "0", "\t", ".", "g", "i", "t", "\n">>),
     find |-> Failure],
    [options |-> [includeDeleted |-> FALSE, limit |-> <<"1">>, minSize |-> <<>>,
                  output |-> "text"],
     du |-> Failure,
     find |-> Answer(<<"1", "0", "0", "0", "0", "0", "0", "\n">>)] }

\* An entry of the log: a call bloatCommand made, or something it printed.
Event(op) == [op |-> op, input |-> <<>>, ok |-> TRUE]
\* The size lookup of one chunk: its input, and whether it answered.
LookupEvent(batch, ok) == [op |-> "cat-file", input |-> batch, ok |-> ok]

\* ciCommand before it has run.
NoCiOptions == [failOnSecrets |-> FALSE, failOnDuplicates |-> FALSE,
                failOnStaleFlags |-> FALSE, failOnBloat |-> <<>>]
NoScans == [gitleaks |-> FALSE, secrets |-> 0, duplicates |-> 0, staleFlags |-> 0,
            fileMegabytes |-> {}]
NoResults == [checks |-> <<>>, exitCode |-> 0, summary |-> <<>>, printed |-> FALSE]
CiIdle ==
  /\ ciOptions = NoCiOptions
  /\ scans = NoScans
  /\ results = NoResults

StartState ==
  /\ pc = "start"
  /\ cmd = ""
  /\ hashToPath = <<>>
  /\ hashes = <<>>
  /\ i = 0
  /\ objects = <<>>
  /\ failed = {}
  /\ filteredObjects = <<>>
  /\ gitDirSize = 0
  /\ workingDirSize = 0
  /\ unmeasured = {}
  /\ totalObjectSize = 0
  /\ recommendations = <<>>
  /\ out = NoOutput
  /\ exitCode = 0
  /\ filePath = <<>>
  /\ category = <<>>
  /\ log = <<>>
  /\ CiIdle

Init ==
  /\ StartState
  /\ \E run \in PipelineRuns :
       /\ options = run.options
       /\ duAnswer = run.du
       /\ findAnswer = run.find
  /\ batchSize \in BatchSizes
  /\ \/ /\ isRepo = FALSE
        /\ revList = NotListed
        /\ store = <<>>
     \/ /\ isRepo = TRUE
        /\ revList = NotListed
        /\ store = <<>>
     \/ /\ isRepo = TRUE
        /\ \E ls \in LineSeqs(MaxLines) :
             /\ options.includeDeleted \/ NoRepeat(ls)
             /\ revList = Listed(ls)
             /\ store \in Stores(HashesListed(ls))

\* ---------------------------------------------------------- the actions
\* bloat.js 231-234: not a repository.
NotARepository ==
  /\ pc = "start"
  /\ ~isRepo
  /\ pc' = "exit"
  /\ exitCode' = 1
  /\ out' = [NoOutput EXCEPT !.error = "Not a git repository"]
  /\ log' = <<Event("printError"), Event("exit")>>
  /\ UNCHANGED <<ciVars, unitVars, envVars, enumVars, i, objects, failed, filteredObjects, gitDirSize,
                 workingDirSize, unmeasured, totalObjectSize, recommendations>>

\* Mutant: an enumeration that throws taken for an empty inventory.
EnumerationFails_AsEmpty ==
  /\ pc = "start"
  /\ isRepo
  /\ ~revList.ok
  /\ cmd' = RevListCmd(options.includeDeleted)
  /\ pc' = "measureGit"
  /\ log' = <<Event("createSpinner"), [Event("rev-list") EXCEPT !.ok = FALSE],
              Event("sort"), Event("spinner.update"), Event("filter")>>
  /\ UNCHANGED <<ciVars, unitVars, envVars, hashToPath, hashes, i, objects, failed,
                 filteredObjects, reportVars, exitCode>>

\* Mutant: the catch does not stop the spinner.
EnumerationFails_SpinnerLeft ==
  /\ pc = "start"
  /\ isRepo
  /\ ~revList.ok
  /\ cmd' = RevListCmd(options.includeDeleted)
  /\ pc' = "exit"
  /\ exitCode' = 1
  /\ out' = [NoOutput EXCEPT !.error = "Failed to analyze repository"]
  /\ log' = <<Event("createSpinner"), [Event("rev-list") EXCEPT !.ok = FALSE],
              Event("printError"), Event("exit")>>
  /\ UNCHANGED <<ciVars, unitVars, envVars, hashToPath, hashes, i, objects, failed, filteredObjects,
                 gitDirSize, workingDirSize, unmeasured, totalObjectSize,
                 recommendations>>
\* bloat.js 39-45, 91-93, 343-347: the enumeration throws.
EnumerationFails ==
  /\ pc = "start"
  /\ isRepo
  /\ ~revList.ok
  /\ cmd' = RevListCmd(options.includeDeleted)
  /\ pc' = "exit"
  /\ exitCode' = 1
  /\ out' = [NoOutput EXCEPT !.error = "Failed to analyze repository"]
  /\ log' = <<Event("createSpinner"), [Event("rev-list") EXCEPT !.ok = FALSE],
              Event("spinner.stop"), Event("printError"), Event("exit")>>
  /\ UNCHANGED <<ciVars, unitVars, envVars, hashToPath, hashes, i, objects, failed, filteredObjects,
                 gitDirSize, workingDirSize, unmeasured, totalObjectSize,
                 recommendations>>

\* bloat.js 35-60: the enumeration, parsed into hashToPath.
Enumerate ==
  /\ pc = "start"
  /\ isRepo
  /\ revList.ok
  /\ cmd' = RevListCmd(options.includeDeleted)
  /\ hashToPath' = BuildHashToPath(OutputLines(revList.output), <<>>)
  /\ hashes' = MapKeys(hashToPath')
  /\ i' = 0
  /\ pc' = "resolve"
  /\ log' = <<Event("createSpinner"), Event("rev-list")>>
  /\ UNCHANGED <<ciVars, unitVars, envVars, objects, failed, filteredObjects, reportVars, exitCode>>

\* Mutant: the loop left after its first turn.
AfterBatch_EarlyReturn(objs, lookup) ==
  /\ i' = i + batchSize
  /\ objects' = SortBySizeDesc(objs)
  /\ filteredObjects' = FilterByMinSize(objects', MinSizeOf(options))
  /\ log' = log \o <<lookup, Event("sort"), Event("spinner.update"), Event("filter")>>
  /\ pc' = "measureGit"
\* The end of one turn of the loop of bloat.js 62-88: the next chunk, or past
\* the last one the sort, the return and the filter of bloat.js 248.
AfterBatch(objs, lookup) ==
  /\ i' = i + batchSize
  /\ IF i' < Len(hashes)
     THEN /\ objects' = objs
          /\ filteredObjects' = filteredObjects
          /\ log' = Append(log, lookup)
          /\ pc' = "resolve"
     ELSE /\ objects' = SortBySizeDesc(objs)
          /\ filteredObjects' = FilterByMinSize(objects', MinSizeOf(options))
          /\ log' = log \o <<lookup, Event("sort"), Event("spinner.update"),
                              Event("filter")>>
          /\ pc' = "measureGit"

\* Mutant: the entries of a chunk put before those collected so far.
BatchResolved_Prepend ==
  /\ pc = "resolve"
  /\ LET batch == BatchAt(hashes, i, batchSize)
         sizeOutput == CatFileOutput(store, batch)
     IN AfterBatch(BatchEntries(hashToPath, sizeOutput) \o objects,
                   LookupEvent(batch, TRUE))
  /\ UNCHANGED <<ciVars, unitVars, envVars, enumVars, failed, reportVars, exitCode>>
\* bloat.js 63-84: the size lookup of the chunk at i answers.
BatchResolved ==
  /\ pc = "resolve"
  /\ LET batch == BatchAt(hashes, i, batchSize)
         sizeOutput == CatFileOutput(store, batch)
     IN AfterBatch(objects \o BatchEntries(hashToPath, sizeOutput),
                   LookupEvent(batch, TRUE))
  /\ UNCHANGED <<ciVars, unitVars, envVars, enumVars, failed, reportVars, exitCode>>

\* Mutant: no catch around the lookup, so that its error ends the command.
BatchFails_Uncaught ==
  /\ pc = "resolve"
  /\ failed' = failed \cup {i}
  /\ pc' = "exit"
  /\ exitCode' = 1
  /\ out' = [NoOutput EXCEPT !.error = "Failed to analyze repository"]
  /\ log' = log \o <<LookupEvent(BatchAt(hashes, i, batchSize), FALSE),
                      Event("spinner.stop"), Event("printError"), Event("exit")>>
  /\ UNCHANGED <<ciVars, unitVars, envVars, enumVars, i, objects, filteredObjects, gitDirSize,
                 workingDirSize, unmeasured, totalObjectSize, recommendations>>
\* Mutant: a lookup that threw is issued again.
BatchFails_Retried ==
  /\ pc = "resolve"
  /\ failed' = failed \cup {i}
  /\ log' = Append(log, LookupEvent(BatchAt(hashes, i, batchSize), FALSE))
  /\ UNCHANGED <<ciVars, unitVars, envVars, enumVars, i, objects, filteredObjects, pc,
                 reportVars, exitCode>>
\* bloat.js 85-87: the size lookup of the chunk at i throws.
BatchFails ==
  /\ pc = "resolve"
  /\ failed' = failed \cup {i}
  /\ AfterBatch(objects, LookupEvent(BatchAt(hashes, i, batchSize), FALSE))
  /\ UNCHANGED <<ciVars, unitVars, envVars, enumVars, reportVars, exitCode>>

\* Mutant: a measurement that throws ends the command.
MeasureGitDir_Aborts ==
  /\ pc = "measureGit"
  /\ gitDirSize' = IF duAnswer.ok THEN GitDirSizeOf(duAnswer.output) ELSE 0
  /\ unmeasured' = IF duAnswer.ok THEN unmeasured ELSE unmeasured \cup {"git"}
  /\ log' = Append(log, [Event("du") EXCEPT !.ok = duAnswer.ok])
  /\ pc' = IF duAnswer.ok THEN "measureWork" ELSE "exit"
  /\ exitCode' = IF duAnswer.ok THEN exitCode ELSE 1
  /\ UNCHANGED <<ciVars, unitVars, envVars, enumVars, i, objects, failed, filteredObjects,
                 workingDirSize, totalObjectSize, recommendations, out>>
\* bloat.js 251, 115-125
MeasureGitDir ==
  /\ pc = "measureGit"
  /\ gitDirSize' = IF duAnswer.ok THEN GitDirSizeOf(duAnswer.output) ELSE 0
  /\ unmeasured' = IF duAnswer.ok THEN unmeasured ELSE unmeasured \cup {"git"}
  /\ log' = Append(log, [Event("du") EXCEPT !.ok = duAnswer.ok])
  /\ pc' = "measureWork"
  /\ UNCHANGED <<ciVars, unitVars, envVars, enumVars, i, objects, failed, filteredObjects,
                 workingDirSize, totalObjectSize, recommendations, out, exitCode>>

\* bloat.js 262-276
JsonOutput ==
  [NoOutput EXCEPT
     !.mode = "json",
     !.stats = [gitDirSize |-> gitDirSize, workingDirSize |-> workingDirSize',
                totalObjectSize |-> totalObjectSize', objectCount |-> Len(objects),
                largeObjectCount |-> Len(filteredObjects),
                ratio |-> RatioText(gitDirSize, workingDirSize', 100)],
     !.largestFiles = WithCategory(TakeLimit(filteredObjects, LimitOf(options))),
     !.recommendations = recommendations']

\* bloat.js 281-341: the text report (totalObjectSize is not printed).
TextOutput ==
  LET limit == LimitOf(options)
      totals == CategoryTotals(objects, <<>>)
  IN [NoOutput EXCEPT
        !.mode = "text",
        !.stats = [gitDirSize |-> gitDirSize, workingDirSize |-> workingDirSize',
                   totalObjectSize |-> 0, objectCount |-> Len(objects),
                   largeObjectCount |-> Len(filteredObjects),
                   ratio |-> RatioText(gitDirSize, workingDirSize', 10)],
        !.rows = IF Len(filteredObjects) > 0
                 THEN TableRows(TakeLimit(filteredObjects, limit)) ELSE <<>>,
        !.more = IF /\ Len(filteredObjects) > 0
                    /\ ~limit.isNaN
                    /\ Len(filteredObjects) > limit.num
                 THEN Len(filteredObjects) - limit.num ELSE 0,
        !.categories = totals,
        !.sortedCategories = SortedCategories(totals),
        !.recommendations = recommendations']

\* Mutant: the filter applied to the inventory itself.
MeasureWorkingDirAndReport_FilterInPlace ==
  /\ pc = "measureWork"
  /\ workingDirSize' = IF findAnswer.ok THEN WorkingDirSizeOf(findAnswer.output) ELSE 0
  /\ unmeasured' = IF findAnswer.ok THEN unmeasured ELSE unmeasured \cup {"work"}
  /\ totalObjectSize' = totalObjectSizeOf(objects, filteredObjects)
  /\ recommendations' = recommendationsOf(objects, filteredObjects, gitDirSize,
                                        workingDirSize')
  /\ out' = IF options.output = "json" THEN JsonOutput ELSE TextOutput
  /\ log' = log \o <<[Event("find") EXCEPT !.ok = findAnswer.ok], Event("reduce"),
                      Event("generateRecommendations"), Event("spinner.stop"),
                      Event("print"), Event("return")>>
  /\ objects' = filteredObjects
  /\ pc' = "done"
  /\ UNCHANGED <<ciVars, unitVars, envVars, enumVars, i, failed, filteredObjects, gitDirSize,
                 exitCode>>
\* bloat.js 252-341, 130-146: the second measurement, the totals, the
\* recommendations and the report.
MeasureWorkingDirAndReport ==
  /\ pc = "measureWork"
  /\ workingDirSize' = IF findAnswer.ok THEN WorkingDirSizeOf(findAnswer.output) ELSE 0
  /\ unmeasured' = IF findAnswer.ok THEN unmeasured ELSE unmeasured \cup {"work"}
  /\ totalObjectSize' = totalObjectSizeOf(objects, filteredObjects)
  /\ recommendations' = recommendationsOf(objects, filteredObjects, gitDirSize,
                                        workingDirSize')
  /\ out' = IF options.output = "json" THEN JsonOutput ELSE TextOutput
  /\ log' = log \o <<[Event("find") EXCEPT !.ok = findAnswer.ok], Event("reduce"),
                      Event("generateRecommendations"), Event("spinner.stop"),
                      Event("print"), Event("return")>>
  /\ pc' = "done"
  /\ UNCHANGED <<ciVars, unitVars, envVars, enumVars, i, objects, failed, filteredObjects, gitDirSize,
                 exitCode>>

Next ==
  \/ NotARepository
  \/ EnumerationFails
  \/ Enumerate
  \/ BatchResolved
  \/ BatchFails
  \/ MeasureGitDir
  \/ MeasureWorkingDirAndReport

Spec == Init /\ [][Next]_vars

\* ------------------------------------------------ the report on its own
\* The states in which getAllObjects has just returned, for repositories
\* with realistic paths and sizes: the objects a repository may hold, and
\* the runs of the command over every choice of at most MaxReportObjects of
\* them, listed by rev-list in this order and all held by the store.
MaxReportObjects == 3

ReportObjects ==
  <<
    [hash |-> <<"a", "1">>, path |-> <<>>,
     size |-> 300],
    [hash |-> <<"b", "2">>, path |-> <<"s", "r", "c", "/", "a", "p", "p", ".", "j", "s">>,
     size |-> 1000],
    [hash |-> <<"c", "3">>, path |-> <<"v", "e", "n", "d", "o", "r", "/", "l", "i", "b", ".", "t", "a", "r", ".", "g", "z">>,
     size |-> 2000000],
    [hash |-> <<"d", "4">>, path |-> <<"a", ".", "M", "P", "4">>,
     size |-> 6000000],
    [hash |-> <<"e", "5">>, path |-> <<"d", "o", "c", "s", "/", "b", ".", "p", "n", "g">>,
     size |-> 6000000],
    [hash |-> <<"f", "6">>, path |-> <<"n", "o", "d", "e", "_", "m", "o", "d", "u", "l", "e", "s", "/", "x", ".", "j", "a", "r">>,
     size |-> 11000000]
  >>

RECURSIVE Listing(_, _)
\* The rev-list lines of the objects of ReportObjects chosen by the index
\* set `chosen`, from index k on.
Listing(chosen, k) ==
  IF k > Len(ReportObjects) THEN <<>>
  ELSE (IF k \in chosen
        THEN <<ReportObjects[k].hash
               \o (IF ReportObjects[k].path = <<>> THEN <<>>
                   ELSE <<" ">> \o ReportObjects[k].path)>>
        ELSE <<>>)
       \o Listing(chosen, k + 1)

StoreOf(chosen) ==
  [h \in {ReportObjects[k].hash : k \in chosen} |->
     ReportObjects[CHOOSE k \in chosen : ReportObjects[k].hash = h].size]

ReportOptions ==
  [includeDeleted : {FALSE},
   limit : {<<>>, <<"0">>, <<"1">>, <<"-", "1">>},
   minSize : {<<>>, <<"0">>, <<"6", "0", "0", "0", "0", "0", "0">>, <<"a", "b", "c">>},
   output : {"json", "text"}]

InitReport ==
  /\ isRepo = TRUE
  /\ batchSize = batchSizeDefault
  /\ options \in ReportOptions
  /\ duAnswer \in Answers(DuOutputs)
  /\ findAnswer \in Answers(FindOutputs)
  /\ \E chosen \in SUBSET (DOMAIN ReportObjects) :
       /\ Cardinality(chosen) <= MaxReportObjects
       /\ revList = Listed(Listing(chosen, 1))
       /\ store = StoreOf(chosen)
  /\ cmd = RevListCmd(options.includeDeleted)
  /\ hashToPath = BuildHashToPath(OutputLines(revList.output), <<>>)
  /\ hashes = MapKeys(hashToPath)
  /\ i = batchSize
  /\ objects = getAllObjects(revList.output, store, batchSize, {})
  /\ failed = {}
  /\ filteredObjects = FilterByMinSize(objects, MinSizeOf(options))
  /\ pc = "measureGit"
  /\ gitDirSize = 0
  /\ workingDirSize = 0
  /\ unmeasured = {}
  /\ totalObjectSize = 0
  /\ recommendations = <<>>
  /\ out = NoOutput
  /\ exitCode = 0
  /\ filePath = <<>>
  /\ category = <<>>
  /\ log = <<Event("createSpinner"), Event("rev-list"), LookupEvent(hashes, TRUE),
             Event("sort"), Event("spinner.update"), Event("filter")>>
  /\ CiIdle

NextReport ==
  \/ MeasureGitDir
  \/ MeasureWorkingDirAndReport

SpecReport == InitReport /\ [][NextReport]_vars

\* -------------------------------------- the pure functions on their own
\* categorizeFile and generateRecommendations called directly, on paths and
\* inventories the pipeline's small inputs do not reach.

\* The paths categorizeFile is called on: a directory, a name and a suffix.
PathDirs == {<<>>, <<"s", "r", "c", "/">>, <<"i", "m", "a", "g", "e", "s", "/">>, <<"d", "a", "t", "a", "/">>, <<"n", "o", "d", "e", "_", "m", "o", "d", "u", "l", "e", "s", "/">>, <<"a", "r", "c", "h", "i", "v", "e", "/">>}
PathStems == {<<>>, <<"a">>, <<"b", "i", "n">>, <<"x">>, <<"M", "a", "k", "e", "f", "i", "l", "e">>}
PathSuffixes == {<<>>, <<".">>, <<".", "P", "N", "G">>, <<".", "j", "s", "o", "n">>, <<".", "t", "a", "r", ".", "g", "z">>, <<".", "t", "x", "t">>, <<".", "l", "o", "g">>, <<".", "o">>}
Paths == {d \o n \o x : d \in PathDirs, n \in PathStems, x \in PathSuffixes}

\* The inventories generateRecommendations is called on: at most
\* MaxAdvisoryObjects of AdvisoryObjects, and none, ten or eleven objects
\* above 10 MB, sorted as getAllObjects returns them.
MaxAdvisoryObjects == 2

AdvisoryObjects ==
  <<
    [hash |-> <<"n", "1">>, path |-> <<"n", "o", "d", "e", "_", "m", "o", "d", "u", "l", "e", "s", "/", "x", ".", "j", "s">>,
     size |-> 100],
    [hash |-> <<"v", "2">>, path |-> <<"v", "e", "n", "d", "o", "r", "/", "l", "i", "b", ".", "c">>,
     size |-> 100],
    [hash |-> <<"m", "3">>, path |-> <<"a", ".", "M", "P", "4">>,
     size |-> 5242880],
    [hash |-> <<"m", "4">>, path |-> <<"b", ".", "M", "P", "4">>,
     size |-> 5242881],
    [hash |-> <<"p", "5">>, path |-> <<"l", "i", "b", ".", "j", "a", "r">>,
     size |-> 1048577],
    [hash |-> <<"z", "6">>, path |-> <<"l", "i", "b", ".", "z", "i", "p">>,
     size |-> 1048576],
    [hash |-> <<"s", "7">>, path |-> <<"s", "r", "c", "/", "a", "p", "p", ".", "j", "s">>,
     size |-> 1000],
    [hash |-> <<"g", "8">>, path |-> <<"c", "o", "r", "e", ".", "i", "m", "g">>,
     size |-> 10485760]
  >>

BigObject == [hash |-> <<"b", "9">>, path |-> <<"c", "o", "r", "e", ".", "d", "u", "m", "p">>,
              size |-> 10485761]
BigObjectCounts == {0, ManyLargeObjects, ManyLargeObjects + 1}

RECURSIVE Chosen(_, _, _)
\* The objects of `from` at the indexes `chosen`, from index k on.
Chosen(from, chosen, k) ==
  IF k > Len(from) THEN <<>>
  ELSE (IF k \in chosen THEN <<from[k]>> ELSE <<>>) \o Chosen(from, chosen, k + 1)

AdvisoryInventories ==
  {SortBySizeDesc(Chosen(AdvisoryObjects, chosen, 1) \o [k \in 1..n |-> BigObject]) :
     chosen \in {c \in SUBSET (DOMAIN AdvisoryObjects) : Cardinality(c) <= MaxAdvisoryObjects},
     n \in BigObjectCounts}

GitDirSizes == {0, 3000000, 3000001}
WorkingDirSizes == {0, 1000000}

InitFunctions ==
  /\ isRepo = TRUE
  /\ revList = NotListed
  /\ store = <<>>
  /\ duAnswer = Failure
  /\ findAnswer = Failure
  /\ options = [includeDeleted |-> FALSE, limit |-> <<>>, minSize |-> <<>>,
                output |-> "json"]
  /\ batchSize = batchSizeDefault
  /\ cmd = ""
  /\ hashToPath = <<>>
  /\ hashes = <<>>
  /\ i = 0
  /\ failed = {}
  /\ filteredObjects = <<>>
  /\ unmeasured = {}
  /\ totalObjectSize = 0
  /\ recommendations = <<>>
  /\ out = NoOutput
  /\ exitCode = 0
  /\ category = <<>>
  /\ log = <<>>
  /\ CiIdle
  /\ \/ /\ pc = "categorize"
        /\ filePath \in Paths
        /\ objects = <<>>
        /\ gitDirSize = 0
        /\ workingDirSize = 0
     \/ /\ pc = "recommend"
        /\ filePath = <<>>
        /\ objects \in AdvisoryInventories
        /\ gitDirSize \in GitDirSizes
        /\ workingDirSize \in WorkingDirSizes

\* bloat.js 151-174 called on filePath.
CategorizeFile ==
  /\ pc = "categorize"
  /\ category' = categorizeFile(filePath)
  /\ pc' = "categorized"
  /\ UNCHANGED <<ciVars, log, filePath, envVars, enumVars, i, objects, failed, filteredObjects,
                 reportVars, exitCode>>

\* bloat.js 179-222 called on objects, gitDirSize and workingDirSize.
GenerateRecommendations ==
  /\ pc = "recommend"
  /\ recommendations' = generateRecommendations(objects, gitDirSize, workingDirSize)
  /\ pc' = "recommended"
  /\ UNCHANGED <<log, ciVars, unitVars, envVars, enumVars, i, objects, failed, filteredObjects,
                 gitDirSize, workingDirSize, unmeasured, totalObjectSize, out,
                 exitCode>>

NextFunctions ==
  \/ CategorizeFile
  \/ GenerateRecommendations

SpecFunctions == InitFunctions /\ [][NextFunctions]_vars

\* ------------------------------------------------------------ ciCommand
\* What the scanners return is the environment's: the number of findings
\* of each kind, and the sizes (in whole MB) of the files of HEAD.
scanSecrets(sc) ==
  [available |-> sc.gitleaks, findings |-> IF sc.gitleaks THEN sc.secrets ELSE 0]
scanDuplicateAuthors(sc) == sc.duplicates
scanStaleFlags(sc) == sc.staleFlags
\* parseFloat(options.failOnBloat): on the texts drawn here (whole numbers,
\* or no number at all) it reads what parseInt reads.
ParseFloat(s) == ParseInt(s)
\* if (size > maxBytes): never for a threshold that is not a number
scanLargeFiles(sc, maxSizeMB) ==
  IF maxSizeMB.isNaN THEN {} ELSE {mb \in sc.fileMegabytes : mb > maxSizeMB.num}

\* scanLargeFiles(repoPath, 50) of the run of all checks
DefaultBloatMegabytes == 50

Check(n) == [count |-> n]
secretsKey == "secrets"
duplicateAuthorsKey == "duplicateAuthors"
staleFlagsKey == "staleFlags"
largeFilesKey == "largeFiles"

RECURSIVE SumCounts(_)
\* Object.values(results.checks).reduce((sum, check) => sum + (check.count || 0), 0)
SumCounts(checks) ==
  IF checks = <<>> THEN 0 ELSE Head(checks).value.count + SumCounts(Tail(checks))

\* The options and findings ciCommand is run with.
CiOptionSets ==
  [failOnSecrets : BOOLEAN, failOnDuplicates : BOOLEAN, failOnStaleFlags : BOOLEAN,
   failOnBloat : {<<>>, <<"1", "0">>, <<"x">>}]
ScanResults ==
  [gitleaks : BOOLEAN, secrets : {0, 1}, duplicates : {0, 1}, staleFlags : {0, 2},
   fileMegabytes : SUBSET {20, 60}]

InitCI ==
  /\ pc = "ci"
  /\ isRepo \in BOOLEAN
  /\ ciOptions \in CiOptionSets
  /\ scans \in ScanResults
  /\ results = NoResults
  /\ revList = NotListed
  /\ store = <<>>
  /\ duAnswer = Failure
  /\ findAnswer = Failure
  /\ options = [includeDeleted |-> FALSE, limit |-> <<>>, minSize |-> <<>>,
                output |-> "json"]
  /\ batchSize = batchSizeDefault
  /\ cmd = ""
  /\ hashToPath = <<>>
  /\ hashes = <<>>
  /\ i = 0
  /\ objects = <<>>
  /\ failed = {}
  /\ filteredObjects = <<>>
  /\ gitDirSize = 0
  /\ workingDirSize = 0
  /\ unmeasured = {}
  /\ totalObjectSize = 0
  /\ recommendations = <<>>
  /\ out = NoOutput
  /\ exitCode = 0
  /\ filePath = <<>>
  /\ category = <<>>
  /\ log = <<>>

bloatVars == <<envVars, enumVars, i, objects, failed, filteredObjects, reportVars,
               unitVars, log>>

\* bloat.js 511-514
CiNotARepository ==
  /\ pc = "ci"
  /\ ~isRepo
  /\ results' = [results EXCEPT !.printed = TRUE]
  /\ exitCode' = 1
  /\ pc' = "ciExit"
  /\ UNCHANGED <<bloatVars, ciOptions, scans>>

\* bloat.js 516-521
CiStart ==
  /\ pc = "ci"
  /\ isRepo
  /\ results' = NoResults
  /\ pc' = "ciSecrets"
  /\ UNCHANGED <<bloatVars, ciOptions, scans, exitCode>>

\* One of the four selected checks: the check recorded under `key` with its
\* count, and results.exitCode set to 1 when the count is positive.
RunCheck(selected, key, n, next) ==
  /\ results' = IF selected
                THEN [results EXCEPT
                        !.checks = MapSet(results.checks, key, Check(n)),
                        !.exitCode = IF n > 0 THEN 1 ELSE results.exitCode]
                ELSE results
  /\ pc' = next
  /\ UNCHANGED <<bloatVars, ciOptions, scans, exitCode>>

\* bloat.js 526-537
CheckSecrets ==
  /\ pc = "ciSecrets"
  /\ RunCheck(ciOptions.failOnSecrets, secretsKey, scanSecrets(scans).findings,
              "ciDuplicates")

\* bloat.js 540-550
CheckDuplicateAuthors ==
  /\ pc = "ciDuplicates"
  /\ RunCheck(ciOptions.failOnDuplicates, duplicateAuthorsKey,
              scanDuplicateAuthors(scans), "ciStaleFlags")

\* bloat.js 553-563
CheckStaleFlags ==
  /\ pc = "ciStaleFlags"
  /\ RunCheck(ciOptions.failOnStaleFlags, staleFlagsKey, scanStaleFlags(scans),
              "ciLargeFiles")

\* bloat.js 566-578: options.failOnBloat is the threshold, as text
CheckLargeFiles ==
  /\ pc = "ciLargeFiles"
  /\ RunCheck(ciOptions.failOnBloat # <<>>, largeFilesKey,
              Cardinality(scanLargeFiles(scans, ParseFloat(ciOptions.failOnBloat))),
              "ciSummary")

\* bloat.js 581-607: the four checks run when none was selected;
\* results.exitCode is not assigned here.
AllChecks ==
  <<[key |-> secretsKey, value |-> Check(scanSecrets(scans).findings)],
    [key |-> duplicateAuthorsKey, value |-> Check(scanDuplicateAuthors(scans))],
    [key |-> staleFlagsKey, value |-> Check(scanStaleFlags(scans))],
    [key |-> largeFilesKey,
     value |-> Check(Cardinality(scanLargeFiles(scans,
                        [isNaN |-> FALSE, num |-> DefaultBloatMegabytes])))]>>

\* bloat.js 580-616: the run of all checks if none was selected, the
\* summary, the print and the exit.
CiSummarise ==
  /\ pc = "ciSummary"
  /\ LET checks == IF Len(results.checks) = 0 THEN AllChecks ELSE results.checks
     IN results' = [results EXCEPT
                      !.checks = checks,
                      !.summary = [pass |-> results.exitCode = 0,
                                   issues |-> SumCounts(checks)],
                      !.printed = TRUE]
  /\ exitCode' = results.exitCode
  /\ pc' = "ciExit"
  /\ UNCHANGED <<bloatVars, ciOptions, scans>>

NextCI ==
  \/ CiNotARepository
  \/ CiStart
  \/ CheckSecrets
  \/ CheckDuplicateAuthors
  \/ CheckStaleFlags
  \/ CheckLargeFiles
  \/ CiSummarise

SpecCI == InitCI /\ [][NextCI]_vars

\* =============================================================== claims
\* What the claims read off the environment, apart from the code's parsing.

\* getAllObjects has just returned: `objects` is the inventory it returns.
Returned == pc = "measureGit"

\* The lines rev-list printed.
ListedLines == revList.lines
ListedHashes == {HashOfLine(ListedLines[k]) : k \in DOMAIN ListedLines}
LinesListing(h) == {k \in DOMAIN ListedLines : HashOfLine(ListedLines[k]) = h}
FirstLineOf(h) == ListedLines[CHOOSE k \in LinesListing(h) : \A j \in LinesListing(h) : k <= j]
LastLineOf(h) == ListedLines[CHOOSE k \in LinesListing(h) : \A j \in LinesListing(h) : k >= j]

\* The path an inventory entry shows for an object that this line alone lists.
PathShownFor(line) == PathOf(SetLine(<<>>, line), HashOfLine(line))

\* The offset of the chunk that holds identifier h.
ChunkOffsetOf(h) ==
  LET p == CHOOSE k \in DOMAIN hashes : hashes[k] = h
  IN ((p - 1) \div batchSize) * batchSize
\* The identifiers whose chunk the lookup answered, and those of them the
\* object store holds: the ones the lookup resolved.
AnsweredIds == {h \in ListedHashes : ChunkOffsetOf(h) \notin failed}
ResolvedIds == AnsweredIds \cap DOMAIN store

EntriesOf(h) == {k \in DOMAIN objects : objects[k].hash = h}

\* C1: whatever rev-list printed and whichever lookups failed, the inventory
\* getAllObjects returns is non-increasing by size.
C1_InventorySorted ==
  Returned => \A k \in 1..(Len(objects) - 1) : objects[k].size >= objects[k + 1].size

\* C1 witness: some lookup failed, and the entries collected from the others
\* were not in order before the sort.
C1_Witness ==
  /\ Returned
  /\ failed # {}
  /\ Len(objects) >= 2
  /\ objects # ResolveFrom(hashToPath, hashes, store, batchSize, 0, failed)

\* C2: with --include-deleted, an identifier that rev-list lists several
\* times and the lookup resolves has exactly one inventory entry, whose size
\* is the stored one; the total and the count printed are those of the
\* inventory, so they count it once.
C2_ListedOftenCountedOnce ==
  (pc \in {"measureGit", "done"} /\ options.includeDeleted) =>
    \A h \in ResolvedIds :
      /\ Cardinality(EntriesOf(h)) = 1
      /\ \A k \in EntriesOf(h) : objects[k].size = store[h]
      /\ pc = "done" =>
           /\ out.stats.objectCount = Len(objects)
           /\ totalObjectSize =
                store[h] + SumSizes(SelectSeq(objects, LAMBDA o : o.hash # h))

\* C2 witness: the report of a run in which a resolved identifier was listed
\* on three lines, under three different paths.
C2_Witness ==
  /\ pc = "done"
  /\ options.includeDeleted
  /\ \E h \in ResolvedIds :
       /\ Cardinality(LinesListing(h)) = 3
       /\ Cardinality({PathShownFor(ListedLines[k]) : k \in LinesListing(h)}
                        \ {Unknown}) = 3
       /\ store[h] > 0

C4_OnlyResolvedEntries ==
  Returned =>
    /\ \A k \in DOMAIN objects : objects[k].hash \in ResolvedIds
    /\ Len(objects) <= Cardinality(ResolvedIds)

\* C5: a lookup that fails ends neither the loop nor the command; the
\* inventory holds no entry for an identifier of a failed chunk and the
\* entry, with its stored size, of every identifier resolved in the others;
\* the count printed is the number of resolved entries, that is of the
\* identifiers of answered chunks that the store holds.
C5_CountsResolvedOnly ==
  /\ failed # {} => (pc \in {"resolve", "measureGit", "measureWork", "done"}
                     /\ exitCode = 0)
  /\ pc \in {"measureGit", "done"} =>
       /\ \A h \in ListedHashes \ AnsweredIds : EntriesOf(h) = {}
       /\ \A h \in ResolvedIds :
            \E k \in EntriesOf(h) : objects[k].size = store[h]
       /\ Len(objects) = Cardinality(ResolvedIds)
       /\ pc = "done" => out.stats.objectCount = Cardinality(ResolvedIds)

\* C5 witness: a report after a lookup failed for a chunk holding an object
\* the store has, and a later chunk was resolved.
C5_Witness ==
  /\ pc = "done"
  /\ \E h \in (ListedHashes \ AnsweredIds) \cap DOMAIN store :
       \E g \in ResolvedIds : ChunkOffsetOf(g) > ChunkOffsetOf(h)
  /\ out.stats.objectCount < Cardinality(ListedHashes)

\* C6: when no lookup fails, the inventory is the one a run with the
\* program's chunk size of 500 (a single chunk here) returns, whatever the
\* chunk size was: the same entries in the same order.
C6_ChunkSizeIrrelevant ==
  (Returned /\ failed = {}) =>
    objects = getAllObjects(revList.output, store, batchSizeDefault, {})

\* C6 witness: three chunks of one identifier, all answered, two of the
\* entries of equal size.
C6_Witness ==
  /\ Returned
  /\ failed = {}
  /\ batchSize = 1
  /\ Len(hashes) = 3
  /\ \E j, k \in DOMAIN objects : j # k /\ objects[j].size = objects[k].size
  /\ \E j, k \in DOMAIN objects : objects[j].size # objects[k].size

\* C7 as claimed: every entry's hash is a listed identifier, its path the
\* path shown for a line listing that identifier, its size the size the
\* store holds for it.
C7_EntryCorrelated ==
  Returned =>
    \A k \in DOMAIN objects :
      /\ objects[k].hash \in ListedHashes
      /\ \E j \in LinesListing(objects[k].hash) :
           objects[k].path = PathShownFor(ListedLines[j])
      /\ objects[k].hash \in DOMAIN store
      /\ objects[k].size = store[objects[k].hash]

\* What the report shows of the filtered entries: the JSON largestFiles, or
\* the rows of the text table.
Reported == IF out.mode = "json" THEN out.largestFiles ELSE out.rows

RECURSIVE StoredTotal(_)
\* The sizes the store holds for the identifiers of S, added up.
StoredTotal(S) ==
  IF S = {} THEN 0
  ELSE LET h == CHOOSE x \in S : TRUE IN store[h] + StoredTotal(S \ {h})

RECURSIVE SumValues(_)
SumValues(m) == IF m = <<>> THEN 0 ELSE Head(m).value + SumValues(Tail(m))

\* C8: for every number given as --min-size (or its default), every entry
\* the report shows has at least that size, and the count of large objects
\* it prints is the number of inventory entries of at least that size.
C8_ThresholdFilter ==
  (pc = "done" /\ ~MinSizeOf(options).isNaN) =>
    /\ \A k \in DOMAIN Reported : Reported[k].size >= MinSizeOf(options).num
    /\ out.stats.largeObjectCount =
         Cardinality({k \in DOMAIN objects : objects[k].size >= MinSizeOf(options).num})

\* C8 witness: a report that shows entries, of an inventory holding an entry
\* of exactly the minimum size and a smaller one.
C8_Witness ==
  /\ pc = "done"
  /\ ~MinSizeOf(options).isNaN
  /\ Reported # <<>>
  /\ \E k \in DOMAIN objects : objects[k].size = MinSizeOf(options).num
  /\ \E k \in DOMAIN objects : objects[k].size < MinSizeOf(options).num

\* C9: the total is the sum of the sizes of all the objects listed and
\* stored and the count is their number, whatever --min-size and --limit
\* are; when every object is below the minimum the report shows no entry
\* and a large-object count of 0, the total being that same sum.
C9_TotalsOverFullInventory ==
  pc = "done" =>
    /\ totalObjectSize = StoredTotal(DOMAIN store)
    /\ out.mode = "json" => out.stats.totalObjectSize = StoredTotal(DOMAIN store)
    /\ out.stats.objectCount = Len(objects)
    /\ out.stats.objectCount = Cardinality(DOMAIN store)
    /\ (\A k \in DOMAIN objects : ~AtLeast(objects[k].size, MinSizeOf(options))) =>
         /\ Reported = <<>>
         /\ out.stats.largeObjectCount = 0

\* C9 witness: a JSON report of several objects, all below the minimum size.
C9_Witness ==
  /\ pc = "done"
  /\ out.mode = "json"
  /\ Len(objects) >= 2
  /\ ~MinSizeOf(options).isNaN
  /\ \A k \in DOMAIN objects : objects[k].size < MinSizeOf(options).num
  /\ Reported = <<>>
  /\ totalObjectSize > 0

\* C10: the category totals of the text report add up to the total size;
\* each category's total is the sum of the sizes of the entries of that
\* category, and every entry's category has a total.
C10_CategoryConservation ==
  (pc = "done" /\ out.mode = "text") =>
    /\ SumValues(out.categories) = totalObjectSize
    /\ \A j, k \in DOMAIN out.categories :
         out.categories[j].key = out.categories[k].key => j = k
    /\ \A k \in DOMAIN out.categories :
         out.categories[k].value =
           SumSizes(SelectSeq(objects,
                    LAMBDA o : categorizeFile(o.path) = out.categories[k].key))
    /\ \A k \in DOMAIN objects : MapHas(out.categories, categorizeFile(objects[k].path))

\* C10 witness: a text report with several categories, one of them holding
\* two entries.
C10_Witness ==
  /\ pc = "done"
  /\ out.mode = "text"
  /\ Len(out.categories) >= 2
  /\ \E j, k \in DOMAIN objects :
       j # k /\ categorizeFile(objects[j].path) = categorizeFile(objects[k].path)

\* The closed set of categories, and the category whose extension list
\* holds an extension.
CategoryNames == {categories[k].name : k \in DOMAIN categories} \cup {Cat_other}
InTable(ext) == \E k \in DOMAIN categories : ext \in categories[k].exts
TableCategory(ext) ==
  categories[CHOOSE k \in DOMAIN categories : ext \in categories[k].exts].name
NamesCategory(p) == \E k \in DOMAIN categories : Includes(p, categories[k].name)
FirstNamedCategory(p) ==
  categories[CHOOSE k \in DOMAIN categories :
               /\ Includes(p, categories[k].name)
               /\ \A j \in 1..(k - 1) : ~Includes(p, categories[j].name)].name

\* C11: categorizeFile returns one member of the closed set of categories
\* for every path; it returns `other` for the empty path and for every path
\* that has no extension (no dot at all) and contains no category name.
C11_TotalDefaultOther ==
  pc = "categorized" =>
    /\ category \in CategoryNames
    /\ filePath = <<>> => category = Cat_other
    /\ (~Includes(filePath, <<".">>) /\ ~NamesCategory(filePath)) => category = Cat_other

\* C12: when the lower-cased extension of the path is in the extension
\* table the result is that extension's category; a category name contained
\* in the path decides only when the extension is in no list.
C12_ExtensionFirst ==
  pc = "categorized" =>
    IF InTable(ExtOf(filePath)) THEN category = TableCategory(ExtOf(filePath))
    ELSE IF NamesCategory(filePath) THEN category = FirstNamedCategory(filePath)
    ELSE category = Cat_other

\* The six conditions of the advisory table, read off the inventory and the
\* two directory sizes.
Advisories == {recommendations[k] : k \in DOMAIN recommendations}
PathContains(sub) == \E k \in DOMAIN objects : Includes(objects[k].path, sub)
ObjectAbove(bytes, cats) ==
  \E k \in DOMAIN objects :
    objects[k].size > bytes /\ categorizeFile(objects[k].path) \in cats
StoreOutweighsTree == gitDirSize > RatioFactor * workingDirSize
ObjectsOverLarge == Cardinality({k \in DOMAIN objects : objects[k].size > LargeObjectBytes})
AnyRuleHolds ==
  \/ PathContains(node_modules)
  \/ PathContains(vendorSlash)
  \/ ObjectAbove(LargeMediaBytes, {Cat_image, Cat_video, Cat_audio})
  \/ ObjectAbove(PackageBytes, {Cat_package, Cat_archive})
  \/ StoreOutweighsTree
  \/ ObjectsOverLarge > ManyLargeObjects
\* The place of an advisory in the table.
TableRank(rec) ==
  CASE rec = RecNodeModules -> 1
    [] rec = RecVendor -> 2
    [] rec = RecLargeMedia -> 3
    [] rec = RecPackages -> 4
    [] rec = RecRatio -> 5
    [] rec = RecRunGc -> 6
    [] rec.text = RecManyLarge(0).text -> 7
    [] OTHER -> 8

\* C13: each advisory is in the list generateRecommendations returns iff
\* its own condition holds, whatever the other conditions are, and the
\* advisories stand in the order of the table.
C13_EachRuleOnItsOwn ==
  pc = "recommended" =>
    /\ RecNodeModules \in Advisories <=> PathContains(node_modules)
    /\ RecVendor \in Advisories <=> PathContains(vendorSlash)
    /\ RecLargeMedia \in Advisories
         <=> ObjectAbove(LargeMediaBytes, {Cat_image, Cat_video, Cat_audio})
    /\ RecPackages \in Advisories
         <=> ObjectAbove(PackageBytes, {Cat_package, Cat_archive})
    /\ RecRatio \in Advisories <=> StoreOutweighsTree
    /\ RecRunGc \in Advisories <=> StoreOutweighsTree
    /\ RecManyLarge(ObjectsOverLarge) \in Advisories
         <=> ObjectsOverLarge > ManyLargeObjects
    /\ \A k \in 1..(Len(recommendations) - 1) :
         TableRank(recommendations[k]) < TableRank(recommendations[k + 1])

\* C13 witness: the first rule silent and four later ones fired, the last
\* of them on eleven objects above 10 MB.
C13_Witness ==
  /\ pc = "recommended"
  /\ ~PathContains(node_modules)
  /\ recommendations = <<RecVendor, RecPackages, RecRatio, RecRunGc,
                         RecManyLarge(ManyLargeObjects + 1)>>

\* C14: the list returned is never empty; it is the affirmation alone iff
\* none of the six conditions holds, and does not hold the affirmation when
\* one of them does.
C14_HealthyIffNothingFired ==
  pc = "recommended" =>
    /\ recommendations # <<>>
    /\ ~AnyRuleHolds <=> recommendations = <<RecHealthy>>
    /\ AnyRuleHolds => RecHealthy \notin Advisories

\* C14 witness: the affirmation returned for an inventory of objects at the
\* very thresholds of the rules, and ten objects above 10 MB.
C14_Witness ==
  /\ pc = "recommended"
  /\ recommendations = <<RecHealthy>>
  /\ ObjectsOverLarge = ManyLargeObjects
  /\ \E k \in DOMAIN objects : objects[k].size = LargeMediaBytes

\* C15: when the working-tree measurement failed, the advisory of the ratio
\* rule is not in the report, whatever the size of .git.
C15_NoRatioRuleWhenUnmeasured ==
  (pc = "done" /\ "work" \in unmeasured) =>
    (RecRatio \notin Advisories /\ RecRatio \notin {out.recommendations[k] : k \in DOMAIN out.recommendations})

\* C16: a directory measurement that fails does not end the command: the
\* other measurement is taken next, the failed one is reported as 0 and the
\* other with the value it answered, and the report carries the inventory's
\* count, the total and the recommendations.
C16_MeasurementsFailAlone ==
  /\ pc \in {"measureGit", "measureWork", "done"}
  /\ exitCode = 0
  /\ pc \in {"measureWork", "done"} => ("git" \in unmeasured <=> ~duAnswer.ok)
  /\ pc = "done" =>
       /\ "work" \in unmeasured <=> ~findAnswer.ok
       /\ out.stats.gitDirSize =
            IF duAnswer.ok THEN GitDirSizeOf(duAnswer.output) ELSE 0
       /\ out.stats.workingDirSize =
            IF findAnswer.ok THEN WorkingDirSizeOf(findAnswer.output) ELSE 0
       /\ out.mode \in {"json", "text"}
       /\ out.stats.objectCount = Len(objects)
       /\ out.stats.largeObjectCount = Len(filteredObjects)
       /\ totalObjectSize = SumSizes(objects)
       /\ out.recommendations = generateRecommendations(objects, gitDirSize, workingDirSize)
       /\ out.recommendations # <<>>

\* C16 witness: a report of a non-empty inventory after `du` failed, with the
\* working tree's size as the pipeline answered it.
C16_Witness ==
  /\ pc = "done"
  /\ unmeasured = {"git"}
  /\ out.stats.gitDirSize = 0
  /\ out.stats.workingDirSize > 0
  /\ out.stats.objectCount > 0

\* The command ended by process.exit(1): nothing printed but the error,
\* nothing looked up, measured or computed.
Aborted ==
  /\ pc = "exit"
  /\ exitCode = 1
  /\ out.error # ""
  /\ out = [NoOutput EXCEPT !.error = out.error]
  /\ hashToPath = <<>>
  /\ i = 0
  /\ objects = <<>>
  /\ failed = {}
  /\ filteredObjects = <<>>
  /\ unmeasured = {}
  /\ gitDirSize = 0
  /\ workingDirSize = 0
  /\ recommendations = <<>>

\* C17: when the path is no repository or the enumeration throws, the
\* command never gets past its start other than to exit with code 1, having
\* printed the error alone and issued no lookup and no measurement; from
\* there it takes no further step, so the enumeration is not issued again.
C17_FatalAborts ==
  /\ [](((~isRepo \/ ~revList.ok) /\ pc # "start") => Aborted)
  /\ [](pc = "exit" => (~isRepo \/ ~revList.ok))
  /\ [][pc # "exit"]_vars

\* C17 witness: the command has exited after the enumeration threw.
C17_Witness ==
  /\ pc = "exit"
  /\ isRepo
  /\ ~revList.ok
  /\ cmd = RevListCmd(options.includeDeleted)
  /\ exitCode = 1

\* The place of an identifier's first line in the enumeration, and the
\* identifiers an entry may have been answered for: its own when listed,
\* otherwise (an entry made of a "<identifier> missing" answer) the listed
\* identifiers with leading digits that the store does not hold.
FirstIndexOf(h) == CHOOSE k \in LinesListing(h) : \A j \in LinesListing(h) : k <= j
SourceIds(e) ==
  IF e.hash \in ListedHashes THEN {e.hash}
  ELSE {h \in ListedHashes \ DOMAIN store : ~ParseInt(h).isNaN}

\* C18: of two inventory entries of equal size the one answered for the
\* identifier listed first comes first, whatever the enumeration printed,
\* the chunk size and the lookups that failed.
C18_TiesInFirstSeenOrder ==
  Returned =>
    \A k, l \in DOMAIN objects :
      (k < l /\ objects[k].size = objects[l].size) =>
        \E g \in SourceIds(objects[k]), h \in SourceIds(objects[l]) :
          FirstIndexOf(g) < FirstIndexOf(h)

\* C18 witness: three identifiers looked up one by one, the first listed
\* being the smallest and the two others of one size.
C18_Witness ==
  /\ Returned
  /\ batchSize = 1
  /\ Len(objects) = 3
  /\ objects[1].size = objects[2].size
  /\ objects[3].size < objects[2].size
  /\ \A k \in DOMAIN objects : objects[k].hash \in ListedHashes
  /\ FirstIndexOf(objects[3].hash) < FirstIndexOf(objects[1].hash)

\* C19: for every number given as --limit (or its default of 20) the report
\* shows at most that many entries (none for a negative number), and they
\* are the first entries, in inventory order, of the entries at or above
\* the minimum size.
C19_ConfinedToLimit ==
  (pc = "done" /\ ~LimitOf(options).isNaN) =>
    LET limit == IF LimitOf(options).num < 0 THEN 0 ELSE LimitOf(options).num
        qualifying == SelectSeq(objects, LAMBDA o : AtLeast(o.size, MinSizeOf(options)))
    IN /\ Len(Reported) <= limit
       /\ Len(Reported) = Min(limit, Len(qualifying))
       /\ \A k \in DOMAIN Reported :
            /\ Reported[k].size = qualifying[k].size
            /\ out.mode = "json" => Reported[k].hash = qualifying[k].hash

ExampleScenario ==
  /\ Len(objects) = 2
  /\ objects[1].path = <<"v", "e", "n", "d", "o", "r", "/", "l", "i", "b", ".", "t", "a", "r", ".", "g", "z">>
  /\ objects[1].size = 2000000
  /\ objects[2].path = <<"s", "r", "c", "/", "a", "p", "p", ".", "j", "s">>
  /\ objects[2].size = 1000
  /\ gitDirSize = 5860 * KiB
  /\ workingDirSize = 1000000

\* C21: for the example repository the report's recommendations hold the
\* vendor/ advisory and the ratio advisory, and in the category breakdown
\* `archive` totals the size of vendor/lib.tar.gz and `other` the size of
\* src/app.js.
C21_ExampleReport ==
  (pc = "done" /\ ExampleScenario) =>
    /\ \E k \in DOMAIN out.recommendations : out.recommendations[k] = RecVendor
    /\ \E k \in DOMAIN out.recommendations : out.recommendations[k] = RecRatio
    /\ out.mode = "text" =>
         /\ MapHas(out.categories, Cat_archive)
         /\ MapGet(out.categories, Cat_archive) = 2000000
         /\ MapHas(out.categories, Cat_other)
         /\ MapGet(out.categories, Cat_other) = 1000
         /\ Len(out.categories) = 2

\* C21 witness: the text report of the example repository.
C21_Witness ==
  /\ pc = "done"
  /\ ExampleScenario
  /\ out.mode = "text"
  /\ out.categories # <<>>

\* The checks ciCommand ran, and whether one of them found something.
ChecksRun == {results.checks[k].key : k \in DOMAIN results.checks}
SomeCheckFound == \E k \in DOMAIN results.checks : results.checks[k].value.count > 0
NoOptionGiven ==
  /\ ~ciOptions.failOnSecrets
  /\ ~ciOptions.failOnDuplicates
  /\ ~ciOptions.failOnStaleFlags
  /\ ciOptions.failOnBloat = <<>>

\* C22: ciCommand exits with a non-zero code iff one of the checks it ran
\* counts at least one issue, with checks selected by --fail-on-* options
\* and with none selected, when all checks run.
C22_ExitCodeTellsIssues ==
  (pc = "ciExit" /\ isRepo) => (exitCode # 0 <=> SomeCheckFound)

\* C28: in the results ciCommand prints, summary.pass is true iff the exit
\* code is 0 iff summary.issues, the sum of the counts of the checks run, is
\* 0, whatever --fail-on-* options were given.
C28_SummaryConsistent ==
  (pc = "ciExit" /\ isRepo) =>
    /\ results.summary.pass <=> exitCode = 0
    /\ exitCode = 0 <=> results.summary.issues = 0
    /\ results.summary.issues = SumCounts(results.checks)

\* The size lookups issued so far, in order, and their inputs end to end.
Lookups == SelectSeq(log, LAMBDA e : e.op = "cat-file")
RECURSIVE InputsOf(_)
InputsOf(ls) == IF ls = <<>> THEN <<>> ELSE Head(ls).input \o InputsOf(Tail(ls))
ChunksOf(n) == (n + batchSize - 1) \div batchSize

IndexesOf(op) == {k \in DOMAIN log : log[k].op = op}
AllBefore(first, then) == \A a \in IndexesOf(first), b \in IndexesOf(then) : a < b
InventoryReaders == {"filter", "reduce", "generateRecommendations", "print"}

\* C24: the enumeration is over before the first size lookup, the lookups
\* follow one another, the sort follows the last of them when every chunk
\* has been looked up, both directory measurements come after it, `du`
\* first, and nothing filters, totals, classifies or prints the inventory
\* before the sort.
C24_StrictlySequential ==
  /\ AllBefore("rev-list", "cat-file")
  /\ AllBefore("cat-file", "sort")
  /\ AllBefore("sort", "du")
  /\ AllBefore("du", "find")
  /\ \A op \in InventoryReaders :
       /\ AllBefore("sort", op)
       /\ IndexesOf(op) # {} => IndexesOf("sort") # {}
  /\ \A op \in {"rev-list", "sort", "du", "find"} \cup InventoryReaders :
       Cardinality(IndexesOf(op)) <= 1
  /\ IndexesOf("sort") # {} => Len(Lookups) = ChunksOf(Len(hashes))
  /\ IndexesOf("cat-file") # {} => \E k \in IndexesOf("rev-list") : log[k].ok
  /\ pc = "resolve" => log[Len(log)].op \in {"rev-list", "cat-file"}
  /\ pc = "done" => IndexesOf("du") # {} /\ IndexesOf("find") # {}

\* C24 witness: a finished run of three lookups, one of which failed.
C24_Witness ==
  /\ pc = "done"
  /\ Cardinality(IndexesOf("cat-file")) = 3
  /\ failed # {}
  /\ Len(objects) >= 1

\* C25: when the working tree's size is 0, measured or not, nothing the
\* command prints holds a ratio of .git to the working tree.
C25_NoRatioOverZero ==
  (pc = "done" /\ workingDirSize = 0) => out.stats.ratio.kind = "none"

\* C26: no step taken after getAllObjects has returned changes the
\* inventory: its length, its order and the hash, path and size of every
\* entry stay as returned through the filter, the limit, the total, the
\* classification, the category roll-up and the recommendations.
C26_InventoryFrozen ==
  [][(pc \in {"measureGit", "measureWork", "done"}) => (objects' = objects)]_vars

\* C26 witness: a report that shows fewer entries than pass the filter, and
\* fewer of those than the inventory holds.
C26_Witness ==
  /\ pc = "done"
  /\ Len(Reported) >= 1
  /\ Len(Reported) < Len(filteredObjects)
  /\ Len(filteredObjects) < Len(objects)

\* C27: the recommendations reported are those of the full inventory and
\* the two directory sizes, whatever --min-size and --limit are and whatever
\* the filter lets through.
C27_RecommendationsOfInventory ==
  pc = "done" =>
    /\ recommendations = generateRecommendations(objects, gitDirSize, workingDirSize)
    /\ out.recommendations = recommendations

\* C27 witness: a report whose filter let nothing through, with advisories
\* due to objects of the inventory.
C27_Witness ==
  /\ pc = "done"
  /\ filteredObjects = <<>>
  /\ Len(objects) >= 2
  /\ RecVendor \in Advisories
  /\ RecPackages \in Advisories

\* The spinner's timer is running: created, and not stopped since.
SpinnerRunningAt(k) ==
  /\ \E c \in IndexesOf("createSpinner") : c < k
  /\ ~\E st \in IndexesOf("spinner.stop") : st < k
Prints == IndexesOf("print") \cup IndexesOf("printError")
Leaves == IndexesOf("return") \cup IndexesOf("exit")

\* C29: on every path of bloatCommand that created the spinner, the
\* spinner has been stopped when a result or an error is printed and when
\* the command returns or exits; no finished run has it running.
C29_SpinnerStopped ==
  /\ \A k \in Prints \cup Leaves : ~SpinnerRunningAt(k)
  /\ pc \in {"done", "exit"} => (Leaves # {} /\ ~SpinnerRunningAt(Len(log) + 1))
  /\ (pc \in {"done", "exit"} /\ isRepo) => IndexesOf("createSpinner") # {}

\* C29 witness: the command has exited on the error of the enumeration,
\* having created the spinner and stopped it.
C29_Witness ==
  /\ pc = "exit"
  /\ IndexesOf("createSpinner") # {}
  /\ IndexesOf("spinner.stop") # {}
  /\ IndexesOf("printError") # {}

====
